---- MODULE Spec2Model ----
(***************************************************************************)
(* Model of the takeable crate (src/src/lib.rs): Takeable<T>, a wrapper    *)
(* around an Option<T> that is expected to always hold a value, with       *)
(* borrow / borrow_result (move the value out, run a closure, move the     *)
(* result back in) and take (move the value out for good).                 *)
(*                                                                         *)
(* An Option<T> is modelled as a sequence of length at most one:           *)
(* None is <<>> and Some(v) is <<v>>.                                      *)
(***************************************************************************)
EXTENDS Integers, Sequences, FiniteSets, TLC

\* Number of Takeable objects the client program may create.
NumContainers == 2

\* The values of T are 0..MaxVal.
MaxVal == 1

Cont == 1..NumContainers
Val == 0..MaxVal

None == <<>>
Some(v) == <<v>>

\* lib.rs:70
PANIC_MESSAGE == "the value has already been removed from the Takeable"
\* The payload of a panic raised by a client closure (test_usable: panic!()).
CLOSURE_PANIC == "explicit panic"

VARIABLES
    live,       \* live[c]: "unborn" (not constructed yet), "live", "gone" (dropped or consumed)
    value,      \* value[c]: the field `value: Option<T>` of container c
    stack,      \* the borrow_result call whose closure is running: <<>> or <<frame>>
    unwinding,  \* TRUE while a panic is propagating (destructors run, nothing else)
    unwound,    \* history: containers whose borrow_result was unwound by a panic
    taken,      \* history: containers whose value was moved out by take()
    last        \* the most recently completed call and how it ended

vars == <<live, value, stack, unwinding, unwound, taken, last>>

----------------------------------------------------------------------------
(* Client closures.  A closure given to borrow_result is FnOnce(T) -> (T, R);
   it is described by the name of the function computing the new value and
   the name of the function computing the auxiliary result.  "panic" never
   returns; "checked_inc" panics on overflow past MaxVal (n + 1 in a build
   with overflow checks) and "inc" wraps around. *)
HNames == {"inc", "checked_inc", "zero", "panic"}
SNames == {"old", "new", "unit"}

Closures == [h : HNames, s : SNames]
NoClosure == [h |-> "none", s |-> "none"]

ClosurePanics(h, v) == h = "panic" \/ (h = "checked_inc" /\ v = MaxVal)

H(h, v) ==
    CASE h = "inc" -> (v + 1) % (MaxVal + 1)
      [] h = "checked_inc" -> v + 1
      [] h = "zero" -> 0
      [] OTHER -> v

\* The auxiliary result: "old" is n -> (_, n) as in test_takeable line 194,
\* "new" returns the new value, "unit" is the () that borrow supplies.
Side(cl, v) ==
    CASE cl.s = "old" -> Some(v)
      [] cl.s = "new" -> Some(H(cl.h, v))
      [] OTHER -> None

----------------------------------------------------------------------------
(* Outcomes of a call. *)
Returned(val, flag) == [kind |-> "ok", msg |-> "", val |-> val, flag |-> flag]
Panicked(msg) == [kind |-> "panic", msg |-> msg, val |-> None, flag |-> FALSE]

Borrows == {"borrow", "borrow_result"}

\* What the call before this one was, when it was a borrow/borrow_result on
\* the same container that returned normally: its closure and the value it
\* was given.  NoPrior otherwise.
NoPrior == [h |-> "none", v |-> None]
PriorOf(c) ==
    IF last.op \in Borrows /\ last.c = c /\ last.out.kind = "ok"
      THEN [h |-> last.cl.h, v |-> last.pre]
      ELSE NoPrior

\* The methods that hand out the contained value without changing it.
Reads == {"as_ref", "deref", "into_inner"}

\* What the call before this one meant to leave in the slot, when it was a
\* write through as_mut/deref_mut (the value written) or a borrow or
\* borrow_result that returned (the closure's new value) on the same
\* container.  None otherwise.
WroteBefore(c) ==
    IF last.c = c /\ last.out.kind = "ok" /\ last.op \in {"as_mut", "deref_mut"}
      THEN last.out.val
      ELSE IF last.c = c /\ last.out.kind = "ok" /\ last.op \in Borrows
        THEN Some(H(last.cl.h, last.pre[1]))
        ELSE None

\* The record of a completed call: the method, the container, the closure
\* given (if any), the slot before the call and the outcome.
Call(op, c, cl, pre, out) ==
    [op |-> op, c |-> c, cl |-> cl, pre |-> pre, out |-> out,
     prior |-> IF op \in Borrows THEN PriorOf(c) ELSE NoPrior,
     wrote |-> IF op \in Reads THEN WroteBefore(c) ELSE None]

\* Containers mutably borrowed by a running borrow_result (`&mut self`).
InFrame == {stack[i].c : i \in 1..Len(stack)}

\* The client can name container c and call a method on it.  While a closure
\* runs, the model follows the closure alone: it is a function of the value it
\* was given and calls no method of a Takeable itself.
Accessible(c) == live[c] = "live" /\ stack = <<>> /\ ~unwinding

\* A panic: the call ends, every running closure is unwound (nothing in this
\* crate catches it) and the slots emptied at lib.rs:103 stay as they are.
Raise(op, c, cl, pre, msg) ==
    /\ stack' = <<>>
    /\ unwinding' = TRUE
    /\ unwound' = unwound \cup InFrame
    /\ taken' = taken
    /\ last' = Call(op, c, cl, pre, Panicked(msg))

\* A normal return of a call that leaves the call stack as it is.
Return(op, c, cl, val, flag) ==
    /\ last' = Call(op, c, cl, value[c], Returned(val, flag))
    /\ taken' = IF op = "take" THEN taken \cup {c} ELSE taken
    /\ UNCHANGED <<stack, unwinding, unwound>>

----------------------------------------------------------------------------
(* Constructors *)

\* lib.rs:75-77  Takeable { value: Some(value) }
new(c, v) ==
    /\ live[c] = "unborn" /\ stack = <<>> /\ ~unwinding
    /\ live' = [live EXCEPT ![c] = "live"]
    /\ value' = [value EXCEPT ![c] = Some(v)]
    /\ last' = Call("new", c, NoClosure, None, Returned(None, TRUE))
    /\ UNCHANGED <<stack, unwinding, unwound, taken>>

\* lib.rs:155-162  From::from is Self::new(value)
from(c, v) ==
    /\ live[c] = "unborn" /\ stack = <<>> /\ ~unwinding
    /\ live' = [live EXCEPT ![c] = "live"]
    /\ value' = [value EXCEPT ![c] = Some(v)]
    /\ last' = Call("from", c, NoClosure, None, Returned(None, TRUE))
    /\ UNCHANGED <<stack, unwinding, unwound, taken>>

\* lib.rs:60  #[derive(Default)]: every field gets its type's default, and
\* the default of the field's type Option<T> is None.
default(c) ==
    /\ live[c] = "unborn" /\ stack = <<>> /\ ~unwinding
    /\ live' = [live EXCEPT ![c] = "live"]
    /\ value' = [value EXCEPT ![c] = None]
    /\ last' = Call("default", c, NoClosure, None, Returned(None, TRUE))
    /\ UNCHANGED <<stack, unwinding, unwound, taken>>

----------------------------------------------------------------------------
(* Inherent methods and accessors *)

\* Ref with the value moved out of the slot instead of borrowed from it
\* (take() where as_ref() is meant).
Ref_taking(op, c) ==
    /\ Accessible(c)
    /\ value' = [value EXCEPT ![c] = None]
    /\ IF value[c] = None
         THEN Raise(op, c, NoClosure, value[c], PANIC_MESSAGE)
         ELSE Return(op, c, NoClosure, value[c], TRUE)
    /\ UNCHANGED live

\* lib.rs:168-170  self.value.as_ref().expect(PANIC_MESSAGE); also the body
\* of deref (lib.rs:142-144) and of Display::fmt (lib.rs:133-135).
Ref(op, c) ==
    /\ Accessible(c)
    /\ IF value[c] = None
         THEN Raise(op, c, NoClosure, value[c], PANIC_MESSAGE)
         ELSE Return(op, c, NoClosure, value[c], TRUE)
    /\ UNCHANGED <<live, value>>

as_ref(c) == Ref("as_ref", c)
deref(c) == Ref("deref", c)
fmt(c) == Ref("fmt", c)

\* Mut with Option::insert in place of as_mut().expect(): the write goes
\* into the slot whether or not it holds a value.
Mut_insert(op, c, w) ==
    /\ Accessible(c)
    /\ value' = [value EXCEPT ![c] = Some(w)]
    /\ Return(op, c, NoClosure, Some(w), TRUE)
    /\ UNCHANGED live

\* Mut handing out a reference to a copy of the value: the client's write
\* never reaches the slot.
Mut_copy(op, c, w) ==
    /\ Accessible(c)
    /\ IF value[c] = None
         THEN Raise(op, c, NoClosure, value[c], PANIC_MESSAGE)
         ELSE Return(op, c, NoClosure, Some(w), TRUE)
    /\ UNCHANGED <<live, value>>

\* lib.rs:177-179  self.value.as_mut().expect(PANIC_MESSAGE), followed by the
\* client's write of w through the returned &mut T; also the body of
\* deref_mut (lib.rs:150-152).
Mut(op, c, w) ==
    /\ Accessible(c)
    /\ IF value[c] = None
         THEN /\ Raise(op, c, NoClosure, value[c], PANIC_MESSAGE)
              /\ UNCHANGED value
         ELSE /\ value' = [value EXCEPT ![c] = Some(w)]
              /\ Return(op, c, NoClosure, Some(w), TRUE)
    /\ UNCHANGED live

as_mut(c, w) == Mut("as_mut", c, w)
deref_mut(c, w) == Mut("deref_mut", c, w)

\* is_usable asking the Option after moving the value out of it
\* (self.value.take().is_some() on a mutable receiver).
is_usable_taking(c) ==
    /\ Accessible(c)
    /\ value' = [value EXCEPT ![c] = None]
    /\ Return("is_usable", c, NoClosure, None, value[c] # None)
    /\ UNCHANGED live

\* lib.rs:125-127  self.value.is_some()
is_usable(c) ==
    /\ Accessible(c)
    /\ Return("is_usable", c, NoClosure, None, value[c] # None)
    /\ UNCHANGED <<live, value>>

\* take without the expect: an empty slot is handed back as if it were a value.
take_unchecked(c) ==
    /\ Accessible(c)
    /\ value' = [value EXCEPT ![c] = None]
    /\ Return("take", c, NoClosure, value[c], TRUE)
    /\ UNCHANGED live

\* take that copies the value out and leaves it in the slot.
take_peek(c) ==
    /\ Accessible(c)
    /\ IF value[c] = None
         THEN Raise("take", c, NoClosure, value[c], PANIC_MESSAGE)
         ELSE Return("take", c, NoClosure, value[c], TRUE)
    /\ UNCHANGED <<live, value>>

\* take on a slot shared by all containers (a static in place of the field):
\* taking from one empties every one.
take_shared(c) ==
    /\ Accessible(c)
    /\ value' = [d \in Cont |-> None]
    /\ IF value[c] = None
         THEN Raise("take", c, NoClosure, value[c], PANIC_MESSAGE)
         ELSE Return("take", c, NoClosure, value[c], TRUE)
    /\ UNCHANGED live

\* lib.rs:115-117  self.value.take().expect(PANIC_MESSAGE)
take(c) ==
    /\ Accessible(c)
    /\ value' = [value EXCEPT ![c] = None]
    /\ IF value[c] = None
         THEN Raise("take", c, NoClosure, value[c], PANIC_MESSAGE)
         ELSE Return("take", c, NoClosure, value[c], TRUE)
    /\ UNCHANGED live

\* lib.rs:82-84  self.value.expect(PANIC_MESSAGE); self is consumed.
into_inner(c) ==
    /\ Accessible(c)
    /\ live' = [live EXCEPT ![c] = "gone"]
    /\ value' = [value EXCEPT ![c] = None]
    /\ IF value[c] = None
         THEN Raise("into_inner", c, NoClosure, value[c], PANIC_MESSAGE)
         ELSE Return("into_inner", c, NoClosure, value[c], TRUE)

----------------------------------------------------------------------------
(* borrow and borrow_result *)

\* BorrowCall with `if let Some(old) = self.value.take()` in place of the
\* expect: on an empty slot the call returns without doing anything.
BorrowCall_noop(via, c, cl) ==
    /\ Accessible(c)
    /\ value' = [value EXCEPT ![c] = None]
    /\ IF value[c] = None
         THEN Return(via, c, cl, None, TRUE)
         ELSE /\ stack' = Append(stack, [c |-> c, cl |-> cl, old |-> value[c][1], via |-> via])
              /\ UNCHANGED <<unwinding, unwound, taken, last>>
    /\ UNCHANGED live

\* BorrowCall giving the closure a bitwise copy of the value and leaving the
\* original in the slot (ptr::read in place of Option::take).
BorrowCall_keep(via, c, cl) ==
    /\ Accessible(c)
    /\ IF value[c] = None
         THEN Raise(via, c, cl, value[c], PANIC_MESSAGE)
         ELSE /\ stack' = Append(stack, [c |-> c, cl |-> cl, old |-> value[c][1], via |-> via])
              /\ UNCHANGED <<unwinding, unwound, taken, last>>
    /\ UNCHANGED <<live, value>>

\* lib.rs:103  let old = self.value.take().expect(PANIC_MESSAGE);
\* then control passes to the closure, lib.rs:104.
BorrowCall(via, c, cl) ==
    /\ Accessible(c)
    /\ value' = [value EXCEPT ![c] = None]
    /\ IF value[c] = None
         THEN Raise(via, c, cl, value[c], PANIC_MESSAGE)
         ELSE /\ stack' = Append(stack, [c |-> c, cl |-> cl, old |-> value[c][1], via |-> via])
              /\ UNCHANGED <<unwinding, unwound, taken, last>>
    /\ UNCHANGED live

\* lib.rs:99-107
borrow_result(c, cl) == BorrowCall("borrow_result", c, cl)

\* borrow that moves the value out, gives it to f and drops what f returns:
\* nothing is written back.
borrow_no_writeback(c, h) ==
    /\ Accessible(c)
    /\ value' = [value EXCEPT ![c] = None]
    /\ IF value[c] = None
         THEN Raise("borrow", c, [h |-> h, s |-> "unit"], value[c], PANIC_MESSAGE)
         ELSE Return("borrow", c, [h |-> h, s |-> "unit"], None, TRUE)
    /\ UNCHANGED live

\* lib.rs:89-94  self.borrow_result(|v| (f(v), ()))
borrow(c, h) == BorrowCall("borrow", c, [h |-> h, s |-> "unit"])

Top == stack[Len(stack)]

\* ClosureReturns with the pair taken apart the wrong way: the new value is
\* also what is returned.
ClosureReturns_swapped ==
    /\ stack # <<>>
    /\ ~ClosurePanics(Top.cl.h, Top.old)
    /\ value' = [value EXCEPT ![Top.c] = Some(H(Top.cl.h, Top.old))]
    /\ stack' = SubSeq(stack, 1, Len(stack) - 1)
    /\ last' = Call(Top.via, Top.c, Top.cl, Some(Top.old),
                    Returned(Some(H(Top.cl.h, Top.old)), TRUE))
    /\ UNCHANGED <<live, unwinding, unwound, taken>>

\* ClosureReturns with the old value written back instead of the new one.
ClosureReturns_stale ==
    /\ stack # <<>>
    /\ ~ClosurePanics(Top.cl.h, Top.old)
    /\ value' = [value EXCEPT ![Top.c] = Some(Top.old)]
    /\ stack' = SubSeq(stack, 1, Len(stack) - 1)
    /\ last' = Call(Top.via, Top.c, Top.cl, Some(Top.old),
                    Returned(Side(Top.cl, Top.old), TRUE))
    /\ UNCHANGED <<live, unwinding, unwound, taken>>

\* lib.rs:104-106  the closure returns (new, result); self.value = Some(new);
\* result is returned.
ClosureReturns ==
    /\ stack # <<>>
    /\ ~ClosurePanics(Top.cl.h, Top.old)
    /\ value' = [value EXCEPT ![Top.c] = Some(H(Top.cl.h, Top.old))]
    /\ stack' = SubSeq(stack, 1, Len(stack) - 1)
    /\ last' = Call(Top.via, Top.c, Top.cl, Some(Top.old),
                    Returned(Side(Top.cl, Top.old), TRUE))
    /\ UNCHANGED <<live, unwinding, unwound, taken>>

\* ClosureUnwinds with a guard that puts the old value back while the panic
\* passes through borrow_result.
ClosureUnwinds_restore ==
    /\ stack # <<>>
    /\ ClosurePanics(Top.cl.h, Top.old)
    /\ value' = [value EXCEPT ![Top.c] = Some(Top.old)]
    /\ Raise(Top.via, Top.c, Top.cl, Some(Top.old), CLOSURE_PANIC)
    /\ UNCHANGED live

\* ClosureUnwinds with a guard that fills the slot with a default value (0)
\* while the panic passes through borrow_result.
ClosureUnwinds_default ==
    /\ stack # <<>>
    /\ ClosurePanics(Top.cl.h, Top.old)
    /\ value' = [value EXCEPT ![Top.c] = Some(0)]
    /\ Raise(Top.via, Top.c, Top.cl, Some(Top.old), CLOSURE_PANIC)
    /\ UNCHANGED live

\* lib.rs:104  f(old) panics: lines 105-106 never run, the panic unwinds
\* through borrow_result and every caller.
ClosureUnwinds ==
    /\ stack # <<>>
    /\ ClosurePanics(Top.cl.h, Top.old)
    /\ Raise(Top.via, Top.c, Top.cl, Some(Top.old), CLOSURE_PANIC)
    /\ UNCHANGED <<live, value>>

----------------------------------------------------------------------------
(* Derived traits, lib.rs:60.  Each derived method works field by field on
   `value: Option<T>` with the Option implementation of the same trait. *)

\* Clone::clone (and a Copy of the object): Option<T>::clone of the field.
clone(c, d) ==
    /\ Accessible(c)
    /\ live[d] = "unborn"
    /\ live' = [live EXCEPT ![d] = "live"]
    /\ value' = [value EXCEPT ![d] = value[c]]
    /\ Return("clone", c, NoClosure, value[c], TRUE)

\* PartialEq::eq: Option<T> equality of the two fields.
eq(c, d) ==
    /\ Accessible(c) /\ Accessible(d)
    /\ Return("eq", c, NoClosure, None, value[c] = value[d])
    /\ UNCHANGED <<live, value>>

\* Option<T> ordering: None is less than every Some, Some(a) and Some(b)
\* compare as a and b.  Less, Equal, Greater are -1, 0, 1.
OptionCmp(a, b) ==
    CASE a = b -> 0
      [] a = None -> -1
      [] b = None -> 1
      [] OTHER -> IF a[1] < b[1] THEN -1 ELSE 1

\* Ord::cmp
cmp(c, d) ==
    /\ Accessible(c) /\ Accessible(d)
    /\ Return("cmp", c, NoClosure, Some(OptionCmp(value[c], value[d])), TRUE)
    /\ UNCHANGED <<live, value>>

\* Hash::hash: the discriminant of the Option, then the value if there is one.
hash(c) ==
    /\ Accessible(c)
    /\ Return("hash", c, NoClosure,
              IF value[c] = None THEN <<0>> ELSE <<1, value[c][1]>>, TRUE)
    /\ UNCHANGED <<live, value>>

\* Debug::fmt: prints the struct with its field, None or Some(v).
debug_fmt(c) ==
    /\ Accessible(c)
    /\ Return("debug_fmt", c, NoClosure, value[c], TRUE)
    /\ UNCHANGED <<live, value>>

----------------------------------------------------------------------------
(* Teardown *)

\* drop with a destructor that unwraps the slot before releasing it.
drop_expect(c) ==
    /\ live[c] = "live" /\ stack = <<>>
    /\ live' = [live EXCEPT ![c] = "gone"]
    /\ value' = [value EXCEPT ![c] = None]
    /\ IF value[c] = None
         THEN Raise("drop", c, NoClosure, value[c], PANIC_MESSAGE)
         ELSE Return("drop", c, NoClosure, None, TRUE)

\* Takeable has no Drop implementation (lib.rs:60-67): dropping it drops the
\* Option<T> field.  The destructor of the owner may look at is_usable()
\* first (MyDrop::drop, lib.rs:208-212); flag records what it saw.  This is
\* the only thing that runs while a panic unwinds.
drop(c) ==
    /\ live[c] = "live" /\ stack = <<>>
    /\ live' = [live EXCEPT ![c] = "gone"]
    /\ value' = [value EXCEPT ![c] = None]
    /\ Return("drop", c, NoClosure, None, value[c] # None)

\* The panic reaches a frame that stops it (the harness of a #[should_panic]
\* test, lib.rs:201-203) and the program goes on with the objects it still has.
catch_unwind ==
    /\ unwinding
    /\ unwinding' = FALSE
    /\ UNCHANGED <<live, value, stack, unwound, taken, last>>

----------------------------------------------------------------------------
Init ==
    /\ live = [c \in Cont |-> "unborn"]
    /\ value = [c \in Cont |-> None]
    /\ stack = <<>>
    /\ unwinding = FALSE
    /\ unwound = {}
    /\ taken = {}
    /\ last = Call("none", 1, NoClosure, None, Returned(None, FALSE))

Next ==
    \/ \E c \in Cont, v \in Val : new(c, v)
    \/ \E c \in Cont, v \in Val : from(c, v)
    \/ \E c \in Cont : default(c)
    \/ \E c \in Cont : as_ref(c)
    \/ \E c \in Cont : deref(c)
    \/ \E c \in Cont : fmt(c)
    \/ \E c \in Cont, w \in Val : as_mut(c, w)
    \/ \E c \in Cont, w \in Val : deref_mut(c, w)
    \/ \E c \in Cont : is_usable(c)
    \/ \E c \in Cont : take(c)
    \/ \E c \in Cont : into_inner(c)
    \/ \E c \in Cont, cl \in Closures : borrow_result(c, cl)
    \/ \E c \in Cont, h \in HNames : borrow(c, h)
    \/ ClosureReturns
    \/ ClosureUnwinds
    \/ \E c, d \in Cont : clone(c, d)
    \/ \E c, d \in Cont : eq(c, d)
    \/ \E c, d \in Cont : cmp(c, d)
    \/ \E c \in Cont : hash(c)
    \/ \E c \in Cont : debug_fmt(c)
    \/ \E c \in Cont : drop(c)
    \/ catch_unwind

Spec == Init /\ [][Next]_vars

----------------------------------------------------------------------------
(* Properties *)

\* The container is alive and no closure is running on it.
Observable(c) == live[c] = "live" /\ stack = <<>>

\* C1: when the closure given to borrow or borrow_result on a usable
\* container panics, the call ends with the closure's own panic (not with a
\* normal return and not with the container's message), the closure is no
\* longer running, and from then on the slot of that container is empty: it holds
\* neither the old value nor a new one, and is_usable() reports false.
C1_ClosurePanicInvalidates ==
    /\ (last.op \in Borrows /\ last.pre # None /\ ClosurePanics(last.cl.h, last.pre[1])) =>
          /\ last.out = Panicked(CLOSURE_PANIC)
          /\ last.c \in unwound
          /\ last.c \notin InFrame
    /\ \A c \in unwound : live[c] = "live" => value[c] = None
    /\ (last.op = "is_usable" /\ last.c \in unwound) => last.out = Returned(None, FALSE)

\* A closure panicked, the panic was stopped by the client, and is_usable()
\* was then called on the container and said false.
C1_Witness ==
    /\ last.op = "is_usable" /\ last.c \in unwound
    /\ last.out.flag = FALSE /\ ~unwinding

\* C2: invalidation is irreversible.  A live container whose slot is empty
\* while no closure is running on it (is_usable() is false) has an empty slot
\* after every step, for as long as it lives.
C2_InvalidationIrreversible ==
    [][\A c \in Cont :
          (Observable(c) /\ value[c] = None /\ live'[c] = "live") => value'[c] = None]_vars

\* An invalidated container on which a write was attempted and which is
\* still there, still invalidated.
C2_Witness ==
    /\ last.op \in {"as_mut", "deref_mut"} /\ last.pre = None
    /\ Observable(last.c) /\ value[last.c] = None /\ ~unwinding

\* C3: on a container whose slot is empty, as_ref, deref, as_mut, deref_mut,
\* borrow, borrow_result, take and into_inner end with a panic carrying
\* PANIC_MESSAGE; is_usable returns in every state, with the occupancy.
C3_TerminalStateRejection ==
    /\ (last.op \in {"as_ref", "deref", "as_mut", "deref_mut", "borrow",
                     "borrow_result", "take", "into_inner"} /\ last.pre = None)
          => last.out = Panicked(PANIC_MESSAGE)
    /\ last.op = "is_usable" => last.out = Returned(None, last.pre # None)

\* take() called on a container that take() had already emptied.
C3_Witness ==
    /\ last.op = "take" /\ last.pre = None /\ last.c \in taken
    /\ last.out = Panicked(PANIC_MESSAGE)

\* C4: right after new, from or default the container is usable
\* (its slot holds a value).
C4_StartsUsable ==
    (last.op \in {"new", "from", "default"} /\ Observable(last.c)) => value[last.c] # None

\* C5: borrow_result on a container holding v with a closure returning
\* (h(v), side(v)) returns exactly side(v) and leaves the container holding
\* h(v); holding 0 with n -> (n + 1, n) it returns 0 and leaves 1.
C5_AuxiliaryResult ==
    (last.op = "borrow_result" /\ last.out.kind = "ok" /\ Observable(last.c)) =>
        /\ last.pre # None
        /\ last.out.val = Side(last.cl, last.pre[1])
        /\ value[last.c] = Some(H(last.cl.h, last.pre[1]))
        /\ (last.cl = [h |-> "inc", s |-> "old"] /\ last.pre = Some(0)) =>
              (last.out.val = Some(0) /\ value[last.c] = Some(1))

\* borrow_result(n -> (n + 1, n)) on a container holding 0 has returned.
C5_Witness ==
    /\ last.op = "borrow_result" /\ last.out.kind = "ok"
    /\ last.cl = [h |-> "inc", s |-> "old"] /\ last.pre = Some(0)
    /\ Observable(last.c) /\ value[last.c] = Some(1)

\* C6: after borrow(g) returns on a container that held w, the container
\* holds g(w); and when the call before it was a borrow(f) on the same
\* container, which held v, the container now holds g(f(v)).
C6_BorrowComposes ==
    (last.op = "borrow" /\ last.out.kind = "ok" /\ Observable(last.c)) =>
        /\ last.pre # None
        /\ value[last.c] = Some(H(last.cl.h, last.pre[1]))
        /\ last.prior # NoPrior =>
              value[last.c] = Some(H(last.cl.h, H(last.prior.h, last.prior.v[1])))

\* borrow(zero) then borrow(inc) on a container that held 1: it holds
\* inc(zero(1)) = 1, where zero(inc(1)) would be 0.
C6_Witness ==
    /\ last.op = "borrow" /\ last.out.kind = "ok" /\ last.cl.h = "inc"
    /\ last.prior = [h |-> "zero", v |-> Some(1)]
    /\ Observable(last.c) /\ value[last.c] = Some(1)

\* C7: take() on a container holding v returns v and leaves the slot empty;
\* the slot of a container take() succeeded on is empty ever after, as_ref()
\* on it panics with PANIC_MESSAGE and is_usable() on it says false.
C7_TakeReturnsAndInvalidates ==
    /\ (last.op = "take" /\ last.pre # None) =>
          /\ last.out = Returned(last.pre, TRUE)
          /\ last.c \in taken
    /\ \A c \in taken : value[c] = None
    /\ (last.op = "as_ref" /\ last.c \in taken) => last.out = Panicked(PANIC_MESSAGE)
    /\ (last.op = "is_usable" /\ last.c \in taken) => last.out = Returned(None, FALSE)

\* as_ref() was called on a container after take() and panicked.
C7_Witness ==
    /\ last.op = "as_ref" /\ last.c \in taken
    /\ last.out = Panicked(PANIC_MESSAGE)

\* C8: a live container that is usable, or whose value is with a running
\* closure, becomes an invalidated one only by a step that is a successful
\* take() on it or the panic of the closure borrow/borrow_result gave its
\* value to.  Every other step leaves it usable.
C8_OnlyTakeAndPanicInvalidate ==
    [][\A c \in Cont :
          (/\ live[c] = "live" /\ (value[c] # None \/ c \in InFrame)
           /\ live'[c] = "live" /\ value'[c] = None /\ stack' = <<>>)
          => /\ last'.c = c
             /\ \/ last'.op = "take" /\ last'.out.kind = "ok"
                \/ last'.op \in Borrows /\ last'.out = Panicked(CLOSURE_PANIC)]_vars

\* A write through deref_mut on a usable container, which is still usable.
C8_Witness ==
    /\ last.op = "deref_mut" /\ last.out.kind = "ok"
    /\ Observable(last.c) /\ value[last.c] # None

\* The methods of the object other than is_usable and the constructors.
Methods ==
    {"as_ref", "deref", "as_mut", "deref_mut", "borrow", "borrow_result", "take",
     "into_inner", "fmt", "clone", "eq", "cmp", "hash", "debug_fmt"}

\* C9: every method other than is_usable, the trait methods included, panics
\* when called on a container invalidated by take() or by a panicking closure.
C9_EveryMethodPanics ==
    (last.op \in Methods /\ last.pre = None /\ last.c \in taken \cup unwound)
        => last.out.kind = "panic"

\* C10: dropping a container never panics, in either state, also while a
\* panic is unwinding; the is_usable() its destructor sees is the occupancy,
\* and is false for a container whose closure panicked.  Every live container
\* no closure is running on can be dropped.
C10_SafeTeardown ==
    /\ last.op = "drop" =>
          /\ last.out = Returned(None, last.pre # None)
          /\ live[last.c] = "gone"
          /\ last.c \in unwound => last.out.flag = FALSE
    /\ \A c \in Cont : Observable(c) => ENABLED drop(c)

\* The container whose closure panicked was dropped while the panic was
\* unwinding, and its destructor saw is_usable() false.
C10_Witness ==
    /\ last.op = "drop" /\ last.c \in unwound /\ unwinding
    /\ last.out = Returned(None, FALSE)

\* C11: inside borrow_result the value leaves the slot before the closure
\* runs (the step that starts the closure empties the slot and hands the
\* closure what the slot held), the slot is empty in every state in which the
\* closure is running, the only step that fills it again is the normal
\* return of that closure, and the step on which the closure panics writes
\* nothing to any slot.
C11_BorrowOrdering ==
    [][/\ \A c \in InFrame : value[c] = None
       /\ (stack = <<>> /\ stack' # <<>>) =>
             /\ value[stack'[1].c] = Some(stack'[1].old)
             /\ value'[stack'[1].c] = None
       /\ \A c \in InFrame : value'[c] # None =>
             /\ ~ClosurePanics(Top.cl.h, Top.old)
             /\ stack' = <<>> /\ unwinding' = unwinding
             /\ last'.c = c /\ last'.op \in Borrows /\ last'.out.kind = "ok"
       /\ (stack # <<>> /\ unwinding') => (value' = value /\ stack' = <<>>)]_vars

\* The closure of a borrow_result is running, it is one that will panic,
\* and the slot of its container is empty.
C11_Witness ==
    /\ stack # <<>> /\ Top.via = "borrow_result"
    /\ ClosurePanics(Top.cl.h, Top.old)
    /\ live[Top.c] = "live" /\ value[Top.c] = None

\* C12: a call that is rejected changes nothing and runs nothing.  No step
\* starts a closure on a container whose slot is empty; a borrow or
\* borrow_result on an empty slot ends with the PANIC_MESSAGE panic, not with
\* a normal return; and a step on which as_ref, as_mut, borrow, borrow_result
\* or take panics outside any closure leaves every slot, every container and
\* the take/panic history as they were, the container still invalidated.
C12_RejectedCallChangesNothing ==
    [][/\ \A c \in Cont : (stack = <<>> /\ value[c] = None) => c \notin InFrame'
       /\ (last'.op \in Borrows /\ last'.pre = None) => last'.out = Panicked(PANIC_MESSAGE)
       /\ (stack = <<>> /\ ~unwinding /\ unwinding') =>
             /\ last'.out = Panicked(PANIC_MESSAGE)
             /\ last'.pre = None
             /\ stack' = <<>>
             /\ value' = value /\ value'[last'.c] = None
             /\ taken' = taken /\ unwound' = unwound
             /\ last'.op # "into_inner" => live' = live]_vars

\* borrow was called on a container that take() had emptied: it panicked
\* with PANIC_MESSAGE, no closure is running and the slot is still empty.
C12_Witness ==
    /\ last.op = "borrow" /\ last.pre = None /\ last.c \in taken
    /\ last.out = Panicked(PANIC_MESSAGE)
    /\ Observable(last.c) /\ value[last.c] = None

\* What a call of borrow_result leaves in the slot and how it ends, as a
\* function of what the slot held and of the closure alone.
BorrowOutcome(pre, cl) ==
    IF pre = None
      THEN [slot |-> None, out |-> Panicked(PANIC_MESSAGE)]
      ELSE IF ClosurePanics(cl.h, pre[1])
        THEN [slot |-> None, out |-> Panicked(CLOSURE_PANIC)]
        ELSE [slot |-> Some(H(cl.h, pre[1])), out |-> Returned(Side(cl, pre[1]), TRUE)]

\* C13: borrow(f) behaves as borrow_result(v -> (f(v), ())).  The closure a
\* borrow runs is f paired with the unit result, and the slot and the outcome
\* after borrow and after borrow_result are one and the same function of the
\* slot before the call and of the closure: f(v) and a normal return, an
\* empty slot and f's panic, or an empty slot and the PANIC_MESSAGE panic.
C13_BorrowIsBorrowResult ==
    /\ last.op = "borrow" => last.cl.s = "unit"
    /\ (last.op \in Borrows /\ live[last.c] = "live" /\ last.c \notin InFrame) =>
          [slot |-> value[last.c], out |-> last.out] = BorrowOutcome(last.pre, last.cl)

\* borrow_result(n -> (n + 1, ())) has returned on a container that held 0:
\* the call borrow(n -> n + 1) stands for.
C13_Witness ==
    /\ last.op = "borrow_result" /\ last.cl = [h |-> "inc", s |-> "unit"]
    /\ last.pre = Some(0) /\ last.out = Returned(None, TRUE)
    /\ Observable(last.c) /\ value[last.c] = Some(1)

\* C14: deref, as_ref and into_inner on a usable container all return what
\* the slot holds, and that is the value of the last write: after a write
\* through as_mut or deref_mut, or a borrow or borrow_result that returned,
\* the next read of the same container returns the value written (the
\* closure's new value).  A write through as_mut or deref_mut on a usable
\* container leaves it usable, holding the value written.
C14_ReadPathsAgree ==
    /\ (last.op \in Reads /\ last.pre # None) => last.out = Returned(last.pre, TRUE)
    /\ (last.op \in Reads /\ last.wrote # None) => last.out = Returned(last.wrote, TRUE)
    /\ (last.op \in {"as_ref", "deref"} /\ last.pre # None /\ live[last.c] = "live"
          /\ last.c \notin InFrame) => value[last.c] = last.pre
    /\ (last.op \in {"as_mut", "deref_mut"} /\ last.pre # None) =>
          /\ last.out.kind = "ok" /\ last.out.val # None
          /\ (live[last.c] = "live" /\ last.c \notin InFrame) => value[last.c] = last.out.val

\* into_inner right after a write of 1 to the same container returned 1.
C14_Witness ==
    /\ last.op = "into_inner" /\ last.wrote = Some(1)
    /\ last.out = Returned(Some(1), TRUE)

\* C15: read-only operations have no effect.  A step that is a call of
\* is_usable (on a container in either state), or a call of as_ref or deref
\* that returns, changes nothing but the record of the last call: every
\* slot, every container's lifetime, the running closure and the take/panic
\* history stay as they were, so what any later call finds is the same.
C15_ReadOnlyNoEffect ==
    [][(/\ last' # last
        /\ \/ last'.op = "is_usable"
           \/ last'.op \in {"as_ref", "deref"} /\ last'.out.kind = "ok")
       => UNCHANGED <<live, value, stack, unwinding, unwound, taken>>]_vars

\* is_usable() was called on a usable container and said true, and the
\* container still holds its value.
C15_Witness ==
    /\ last.op = "is_usable" /\ last.out = Returned(None, TRUE)
    /\ Observable(last.c) /\ value[last.c] # None /\ ~unwinding

\* The places that hold the value container c was given: its slot, the
\* closure running on it, the caller take() returned it to.
Holders(c) ==
    (IF value[c] # None THEN 1 ELSE 0)
      + (IF c \in InFrame THEN 1 ELSE 0)
      + (IF c \in taken THEN 1 ELSE 0)

\* C16: single ownership.  In every state the value of a container is in at
\* most one place: the slot, the running closure, or the caller that got it
\* from take().  After a panic unwound the closure (which dropped the value
\* it owned) and after into_inner or a drop, the slot holds nothing, so the
\* value can neither be dropped twice nor be seen through the container.
C16_SingleOwnership ==
    /\ \A c \in Cont : Holders(c) <= 1
    /\ \A c \in unwound : value[c] = None
    /\ \A c \in Cont : live[c] # "live" => value[c] = None
    /\ (last.op = "into_inner" /\ last.out.kind = "ok") =>
          (live[last.c] = "gone" /\ last.out.val = last.pre)

\* One container's value is with a running closure while another's is with
\* the caller of take(); both slots are empty.
C16_Witness ==
    /\ stack # <<>> /\ value[Top.c] = None
    /\ \E d \in taken : d # Top.c /\ live[d] = "live" /\ value[d] = None

\* C17: containers are independent.  A step that is take() on one container
\* leaves the slot, the lifetime and the take/panic history of every other
\* container as they were; so does the step on which a closure panics, for
\* every container other than the one the closure was running on; and a
\* container that holds a value when it is dropped while a panic unwinds is
\* seen usable by its destructor.
C17_ContainersIndependent ==
    [][/\ (last' # last /\ last'.op = "take") =>
             \A d \in Cont \ {last'.c} :
                 /\ value'[d] = value[d] /\ live'[d] = live[d]
                 /\ (d \in taken') = (d \in taken)
                 /\ (d \in unwound') = (d \in unwound)
       /\ (stack # <<>> /\ unwinding') =>
             \A d \in Cont \ InFrame :
                 /\ value'[d] = value[d] /\ live'[d] = live[d]
                 /\ (d \in taken') = (d \in taken)
                 /\ (d \in unwound') = (d \in unwound)
       /\ \A d \in Cont :
             (unwinding /\ live[d] = "live" /\ live'[d] = "gone" /\ value[d] # None)
                 => last' = Call("drop", d, NoClosure, value[d], Returned(None, TRUE))]_vars

\* While the panic of another container's closure unwinds (that container
\* is still to be dropped, invalidated), a container that holds its value is
\* dropped and its destructor sees is_usable() true.
C17_Witness ==
    /\ last.op = "drop" /\ unwinding /\ last.out = Returned(None, TRUE)
    /\ last.c \notin unwound \cup taken
    /\ \E c \in unwound : c # last.c /\ live[c] = "live" /\ value[c] = None
====
